---------------------------- MODULE Spec2Model ----------------------------
(***************************************************************************)
(* SymbolManager (js/model/milstd2525/SymbolManager.js): an observable     *)
(* array of TacticalSymbols mirrored into a renderable layer, with unique  *)
(* name generation and save/restore through localStorage.                  *)
(*                                                                         *)
(* Strings are sequences of one-character strings.  A symbol instance is   *)
(* an object identity (oid); its placemark is identified by the same oid.  *)
(***************************************************************************)
EXTENDS Integers, Sequences, FiniteSets, TLC

VARIABLES heap, symbols, layer, selection, storage, saved, call, effects, error

vars == <<heap, symbols, layer, selection, storage, saved, call, effects, error>>

\* The largest number of symbols the collection holds at once: MaxSymbols
\* where every operation is enabled, MaxNamed where only symbols are added,
\* removed, saved and restored.
MaxSymbols == 2

MaxNamed == 3

MaxOid == IF MaxNamed > MaxSymbols THEN MaxNamed ELSE MaxSymbols

Oid == 1..MaxOid

Range(s) == {s[i] : i \in DOMAIN s}

\* ------------------------------------------------------------------------
\* Strings
\* ------------------------------------------------------------------------
Digit == <<"0", "1", "2", "3", "4", "5", "6", "7", "8", "9">>

IsDigit(c) == \E d \in DOMAIN Digit : Digit[d] = c

DigitVal(c) == (CHOOSE d \in DOMAIN Digit : Digit[d] = c) - 1

\* parseInt(digits, 10) of a non-empty run of decimal digits
RECURSIVE parseInt(_)
parseInt(ds) ==
    IF ds = <<>> THEN 0
    ELSE parseInt(SubSeq(ds, 1, Len(ds) - 1)) * 10 + DigitVal(ds[Len(ds)])

\* '' + n for a non-negative integer n
RECURSIVE toString(_)
toString(n) ==
    IF n < 10 THEN <<Digit[n + 1]>>
    ELSE toString(n \div 10) \o <<Digit[(n % 10) + 1]>>

\* String.prototype.trim over the blank character
RECURSIVE trimLeft(_)
trimLeft(s) ==
    IF s # <<>> /\ s[1] = " " THEN trimLeft(Tail(s)) ELSE s

RECURSIVE trimRight(_)
trimRight(s) ==
    IF s # <<>> /\ s[Len(s)] = " " THEN trimRight(SubSeq(s, 1, Len(s) - 1)) ELSE s

trim(s) == trimRight(trimLeft(s))

\* The number of consecutive digits of s that end at index i.
RECURSIVE digitsEndingAt(_, _)
digitsEndingAt(s, i) ==
    IF i >= 1 /\ IsDigit(s[i]) THEN 1 + digitsEndingAt(s, i - 1) ELSE 0

\* uniqueName.match(/[(]\d+[)]$/): the index of the suffix's "(", or 0 when
\* the name does not end in "(" digits ")".
suffixMatch(s) ==
    LET n == Len(s)
        k == digitsEndingAt(s, n - 1)
    IN  IF n >= 3 /\ s[n] = ")" /\ k >= 1 /\ n - 1 - k >= 1 /\ s[n - 1 - k] = "("
        THEN n - 1 - k
        ELSE 0

\* The decimal text of 2^53.  Numbers are IEEE doubles: every integer up to
\* 2^53 is a Number, 2^53 + 1 is not and rounds (to even) back to 2^53.
TwoTo53Text ==
    <<"9", "0", "0", "7", "1", "9", "9", "2", "5", "4", "7", "4", "0", "9", "9", "2">>

\* parseInt skips leading zeros.
RECURSIVE stripZeros(_)
stripZeros(ds) ==
    IF Len(ds) > 1 /\ ds[1] = "0" THEN stripZeros(Tail(ds)) ELSE ds

\* The decimal text of n + 1 from the decimal text of n, for exact integers.
RECURSIVE successorText(_)
successorText(ds) ==
    IF ds = <<>> THEN <<"1">>
    ELSE LET front == SubSeq(ds, 1, Len(ds) - 1)
             last == ds[Len(ds)]
         IN  IF last = "9" THEN successorText(front) \o <<"0">>
             ELSE front \o <<Digit[DigitVal(last) + 2]>>

\* '' + (parseInt(seqNos, 10) + 1) in Number arithmetic, for digit runs that
\* denote at most 2^53.
plusOneText(seqNos) ==
    LET ds == stripZeros(seqNos)
    IN  IF ds = TwoTo53Text THEN ds ELSE successorText(ds)

\* A replacement that numbers the first duplicate of a name 1.
nextCandidateFromOne(uniqueName) ==
    LET at == suffixMatch(uniqueName)
    IN  IF at # 0
        THEN LET seqNos == SubSeq(uniqueName, at + 1, Len(uniqueName) - 1)
                 n == plusOneText(seqNos)
             IN  SubSeq(uniqueName, 1, at - 1) \o <<"(">> \o n \o <<")">>
        ELSE uniqueName \o <<" ", "(", "1", ")">>

\* A replacement that raises an existing suffix number by two.
nextCandidateSkipping(uniqueName) ==
    LET at == suffixMatch(uniqueName)
    IN  IF at # 0
        THEN LET seqNos == SubSeq(uniqueName, at + 1, Len(uniqueName) - 1)
                 n == plusOneText(plusOneText(seqNos))
             IN  SubSeq(uniqueName, 1, at - 1) \o <<"(">> \o n \o <<")">>
        ELSE uniqueName \o <<" ", "(", "2", ")">>

\* The name that replaces a colliding candidate: an existing suffix "(n)" is
\* replaced by "(n+1)", a name without suffix gets " (2)" appended.
nextCandidate(uniqueName) ==
    LET at == suffixMatch(uniqueName)
    IN  IF at # 0
        THEN LET seqNos == SubSeq(uniqueName, at + 1, Len(uniqueName) - 1)
                 n == plusOneText(seqNos)
             IN  SubSeq(uniqueName, 1, at - 1) \o <<"(">> \o n \o <<")">>
        ELSE uniqueName \o <<" ", "(", "2", ")">>

\* A scan that compares the candidate with every symbol, self included.
collidesWithSelf(h, syms, self, uniqueName) ==
    \E i \in DOMAIN syms : h[syms[i]].name = uniqueName

\* The for loop of generateUniqueName: TRUE when a symbol other than self in
\* the array carries the candidate name.
collides(h, syms, self, uniqueName) ==
    \E i \in DOMAIN syms : syms[i] # self /\ h[syms[i]].name = uniqueName

\* A resolver that renames once and does not scan again.
uniqueNameOnce(h, syms, self, uniqueName, scans) ==
    IF collides(h, syms, self, uniqueName)
    THEN [name |-> nextCandidate(uniqueName), scans |-> scans + 1, hangs |-> FALSE]
    ELSE [name |-> uniqueName, scans |-> scans + 1, hangs |-> FALSE]

\* The do-while loop: the unique name and the number of scans it took.  The
\* names of the other symbols do not change while it runs, so when the
\* replacement of a colliding candidate is the candidate itself every later
\* scan collides in the same way and the loop does not exit (hangs).
RECURSIVE uniqueNameLoop(_, _, _, _, _)
uniqueNameLoop(h, syms, self, uniqueName, scans) ==
    IF collides(h, syms, self, uniqueName)
    THEN IF nextCandidate(uniqueName) = uniqueName
         THEN [name |-> uniqueName, scans |-> scans + 1, hangs |-> TRUE]
         ELSE uniqueNameLoop(h, syms, self, nextCandidate(uniqueName), scans + 1)
    ELSE [name |-> uniqueName, scans |-> scans + 1, hangs |-> FALSE]

generateUniqueName(h, syms, self) ==
    uniqueNameLoop(h, syms, self, trim(h[self].name), 0).name


\* ------------------------------------------------------------------------
\* JSON text: a sequence of tokens, each a punctuation mark or a keyed value
\* in its textual form.
\* ------------------------------------------------------------------------
Tok(t, k, v) == [t |-> t, k |-> k, v |-> v]

LBracket == Tok("[", "", <<>>)
RBracket == Tok("]", "", <<>>)
LBrace == Tok("{", "", <<>>)
RBrace == Tok("}", "", <<>>)
NullText == <<Tok("null", "", <<>>)>>

TrueText == <<"t", "r", "u", "e">>
FalseText == <<"f", "a", "l", "s", "e">>

\* The whitelist handed to ko.toJSON, in the order the properties are written.
Keys == <<"id", "name", "source", "latitude", "longitude", "isMovable">>

\* JSON text of an integer, and the integer a number text denotes.
numberText(x) == IF x < 0 THEN <<"-">> \o toString(0 - x) ELSE toString(x)

numberValue(v) == IF v[1] = "-" THEN 0 - parseInt(Tail(v)) ELSE parseInt(v)

\* The text of one property value.
valueToken(k, x) ==
    IF k \in {"latitude", "longitude"} THEN Tok("number", k, numberText(x))
    ELSE IF k = "isMovable" THEN Tok("bool", k, IF x THEN TrueText ELSE FalseText)
    ELSE Tok("string", k, x)

objectText(r) ==
    <<LBrace>> \o [i \in 1..Len(Keys) |-> valueToken(Keys[i], r[Keys[i]])] \o <<RBrace>>

RECURSIVE arrayBody(_)
arrayBody(rs) ==
    IF rs = <<>> THEN <<>> ELSE objectText(Head(rs)) \o arrayBody(Tail(rs))

\* ko.toJSON(validSymbols, [...]): observables unwrapped, then JSON.stringify
toJSON(rs) == <<LBracket>> \o arrayBody(rs) \o <<RBracket>>

\* The value a token's text denotes.
tokenValue(tok) ==
    IF tok.t = "number" THEN numberValue(tok.v)
    ELSE IF tok.t = "bool" THEN tok.v = TrueText
    ELSE tok.v

ObjLen == Len(Keys) + 2

isObjectText(toks) ==
    /\ Len(toks) = ObjLen
    /\ toks[1].t = "{"
    /\ toks[ObjLen].t = "}"
    /\ \A i \in 2..(ObjLen - 1) : toks[i].t \in {"string", "number", "bool"}
    /\ \A i \in 1..Len(Keys) : \E j \in 2..(ObjLen - 1) : toks[j].k = Keys[i]

property(toks, k) ==
    tokenValue(toks[CHOOSE j \in 2..(ObjLen - 1) : toks[j].k = k])

parseObject(toks) == [i \in {Keys[j] : j \in DOMAIN Keys} |-> property(toks, i)]

\* JSON.parse: null, an array of objects, or a SyntaxError.
JSONparse(text) ==
    LET n == Len(text)
        m == (n - 2) \div ObjLen
        chunk(i) == SubSeq(text, 2 + (i - 1) * ObjLen, 1 + i * ObjLen)
    IN  IF text = NullText THEN [kind |-> "null", items |-> <<>>]
        ELSE IF /\ n >= 2
                /\ text[1].t = "["
                /\ text[n].t = "]"
                /\ (n - 2) % ObjLen = 0
                /\ \A i \in 1..m : isObjectText(chunk(i))
        THEN [kind |-> "array", items |-> [i \in 1..m |-> parseObject(chunk(i))]]
        ELSE [kind |-> "SyntaxError", items |-> <<>>]


\* ------------------------------------------------------------------------
\* Collaborators
\* ------------------------------------------------------------------------

\* new TacticalSymbol(manager, position, params): the symbol carries the
\* parameters it was built from; a construction failure leaves it flagged
\* invalid instead of raising.
TacticalSymbol(position, params, failed) ==
    [id |-> params.id, name |-> params.name, source |-> params.imageSource,
     latitude |-> position.latitude, longitude |-> position.longitude,
     isMovable |-> params.isMovable, invalid |-> failed]

\* new WorldWind.Position(latitude, longitude, altitude)
Position(latitude, longitude, altitude) ==
    [latitude |-> latitude, longitude |-> longitude, altitude |-> altitude]

\* globe.selectController.doDeselect(symbol): no-op when not selected
doDeselect(st, symbol) ==
    [st EXCEPT !.selection = @ \ {symbol},
               !.effects = Append(@, [e |-> "doDeselect", sym |-> symbol])]

\* layer.addRenderable(renderable)
addRenderable(st, placemark) ==
    [st EXCEPT !.layer = Append(@, placemark),
               !.effects = Append(@, [e |-> "addRenderable", sym |-> placemark])]

\* renderables.splice(i, 1)
splice(seq, i) == SubSeq(seq, 1, i - 1) \o SubSeq(seq, i + 1, Len(seq))

\* ------------------------------------------------------------------------
\* SymbolManager internals, as functions of the manager's state
\*   st = [heap, symbols, layer, selection, effects]
\* ------------------------------------------------------------------------
doEnsureUniqueName(st, symbol) ==
    [st EXCEPT !.heap[symbol].name = generateUniqueName(st.heap, st.symbols, symbol)]

\* A synchronizer that leaves symbols flagged invalid out of the layer.
doAddValidSymbolToLayer(st, symbol) ==
    IF st.heap[symbol].invalid THEN st ELSE addRenderable(st, symbol)

doAddSymbolToLayer(st, symbol) == addRenderable(st, symbol)

\* A removal that returns when the placemark is not in the layer.
doRemoveFoundSymbolFromLayer(st, symbol) ==
    LET found == {i \in DOMAIN st.layer : st.layer[i] = symbol}
        first == CHOOSE i \in found : \A j \in found : i <= j
    IN  IF found = {} THEN st
        ELSE doDeselect([st EXCEPT !.layer = splice(@, first),
                                   !.effects = Append(@, [e |-> "splice", sym |-> symbol])],
                        symbol)

\* A removal that moves the last renderable into the place of the one found.
doRemoveSymbolFromLayerSwapping(st, symbol) ==
    LET found == {i \in DOMAIN st.layer : st.layer[i] = symbol}
        first == CHOOSE i \in found : \A j \in found : i <= j
        last == Len(st.layer)
        spliced == IF found = {} THEN st
                   ELSE [st EXCEPT !.layer = SubSeq([@ EXCEPT ![first] = st.layer[last]], 1, last - 1),
                                   !.effects = Append(@, [e |-> "splice", sym |-> symbol])]
    IN  doDeselect(spliced, symbol)

doRemoveSymbolFromLayer(st, symbol) ==
    LET found == {i \in DOMAIN st.layer : st.layer[i] = symbol}
        first == CHOOSE i \in found : \A j \in found : i <= j
        spliced == IF found = {} THEN st
                   ELSE [st EXCEPT !.layer = splice(@, first),
                                   !.effects = Append(@, [e |-> "splice", sym |-> symbol])]
    IN  doDeselect(spliced, symbol)

\* A subscriber that does not look at the moved flag.
onChangeIgnoringMoved(st, change) ==
    IF change.status = "added"
    THEN doAddSymbolToLayer(doEnsureUniqueName(st, change.value), change.value)
    ELSE IF change.status = "deleted"
    THEN doRemoveSymbolFromLayer(st, change.value)
    ELSE st

\* The body of changes.forEach in the arrayChange subscriber.
onChange(st, change) ==
    IF change.status = "added" /\ change.moved = <<>>
    THEN doAddSymbolToLayer(doEnsureUniqueName(st, change.value), change.value)
    ELSE IF change.status = "deleted" /\ change.moved = <<>>
    THEN doRemoveSymbolFromLayer(st, change.value)
    ELSE st

RECURSIVE subscriber(_, _)
subscriber(st, changes) ==
    IF changes = <<>> THEN st
    ELSE subscriber(onChange(st, Head(changes)), Tail(changes))

\* A change record of the observable array; moved is <<>> when undefined.
Change(status, value, moved) == [status |-> status, value |-> value, moved |-> moved]

\* A push whose added record is not delivered before push returns.
addSymbolDeferred(st, symbol) == [st EXCEPT !.symbols = Append(@, symbol)]

\* A push whose added record reaches the subscriber twice.
addSymbolNotifiedTwice(st, symbol) ==
    subscriber([st EXCEPT !.symbols = Append(@, symbol)],
               <<Change("added", symbol, <<>>), Change("added", symbol, <<>>)>>)

\* symbols.push(symbol): the array grows by one and one added record is
\* delivered.
addSymbol(st, symbol) ==
    subscriber([st EXCEPT !.symbols = Append(@, symbol)],
               <<Change("added", symbol, <<>>)>>)

\* The deleted records symbols.remove(symbol) delivers: one per occurrence.
removedChanges(syms, symbol) ==
    [i \in 1..Cardinality({j \in DOMAIN syms : syms[j] = symbol})
        |-> Change("deleted", symbol, <<>>)]

\* A removal by symbols.splice(symbols.indexOf(symbol), 1): for a symbol that
\* is not in the array the index is -1 and the last element is removed.
removeSymbolAtIndexOf(st, symbol) ==
    LET hits == {i \in DOMAIN st.symbols : st.symbols[i] = symbol}
        at == IF hits = {} THEN Len(st.symbols)
              ELSE CHOOSE i \in hits : \A j \in hits : i <= j
    IN  IF st.symbols = <<>> THEN st
        ELSE subscriber([st EXCEPT !.symbols = splice(@, at)],
                        <<Change("deleted", st.symbols[at], <<>>)>>)

\* symbols.remove(symbol): every occurrence leaves the array; subscribers are
\* notified only when something was removed.
removeSymbol(st, symbol) ==
    subscriber([st EXCEPT !.symbols = SelectSeq(@, LAMBDA s : s # symbol)],
               removedChanges(st.symbols, symbol))

\* The steps of the subscriber's added branch that call into a collaborator.
AddSteps == {"generateUniqueName", "addRenderable"}

\* addSymbol when a step of the subscriber raises: push has appended the
\* symbol before the subscriber runs, nothing catches the exception and
\* nothing takes the symbol out again.  A raise in generateUniqueName leaves
\* the name as given; a raise in layer.addRenderable leaves the name resolved.
addSymbolRaising(st, symbol, step) ==
    LET pushed == [st EXCEPT !.symbols = Append(@, symbol)]
    IN  IF step = "generateUniqueName" THEN pushed
        ELSE doEnsureUniqueName(pushed, symbol)

\* removeSymbol when selectController.doDeselect raises: the symbol has left
\* the array and its placemark has been spliced out of the layer; the
\* controller's selection is as it was.
removeSymbolRaising(st, symbol) ==
    LET removed == [st EXCEPT !.symbols = SelectSeq(@, LAMBDA s : s # symbol)]
        found == {i \in DOMAIN st.layer : st.layer[i] = symbol}
        first == CHOOSE i \in found : \A j \in found : i <= j
    IN  IF found = {} THEN removed
        ELSE [removed EXCEPT !.layer = splice(@, first),
                             !.effects = Append(@, [e |-> "splice", sym |-> symbol])]

\* this.symbols.length: the observable is a function object, and the length
\* of a function object is a number, which cannot be called.
symbolsLengthIsFunction == FALSE

findSymbol(h, syms, id) ==
    LET hits == {i \in DOMAIN syms : h[syms[i]].id = id}
    IN  IF ~symbolsLengthIsFunction THEN [error |-> "TypeError", ret |-> 0]
        ELSE IF hits = {} THEN [error |-> "none", ret |-> 0]
        ELSE [error |-> "none", ret |-> syms[CHOOSE i \in hits : \A j \in hits : i <= j]]


\* ------------------------------------------------------------------------
\* State
\* ------------------------------------------------------------------------
\* heap      the fields of every symbol instance that is still referenced
\* symbols   the observable array (instances, in order)
\* layer     layer.renderables (placemarks, in order)
\* selection the symbols the select controller holds as selected
\* storage   the localStorage slot STORAGE_KEY_MARKERS
\* saved     the symbols the last saveSymbols saw (history variable)
\* call      the last operation called and what it was called with (for
\*           addSymbol: the name the symbol came with and the number of
\*           scans the resolver made)
\* effects   the layer mutations and deselect notifications of the last call
\* error     the exception the last call raised, "hang" when the call has
\*           not returned and never will, or "none"

NoCall ==
    [op |-> "none", sym |-> 0, present |-> FALSE, selected |-> FALSE,
     again |-> FALSE, id |-> <<>>, ret |-> 0, before |-> 0,
     name |-> <<>>, scans |-> 0]

Init ==
    /\ heap = <<>>
    /\ symbols = <<>>
    /\ layer = <<>>
    /\ selection = {}
    /\ storage = [present |-> FALSE, text |-> <<>>]
    /\ saved = [fromSave |-> FALSE, syms |-> <<>>]
    /\ call = NoCall
    /\ effects = <<>>
    /\ error = "none"

\* The manager's state at the start of a call.
Manager ==
    [heap |-> heap, symbols |-> symbols, layer |-> layer,
     selection |-> selection, effects |-> <<>>]

\* Instances nothing refers to any more are dropped from the heap.
referenced(st) == Range(st.symbols) \cup Range(st.layer) \cup st.selection

collect(st) == [o \in (DOMAIN st.heap) \cap referenced(st) |-> st.heap[o]]

Commit(st, c, err) ==
    /\ heap' = collect(st)
    /\ symbols' = st.symbols
    /\ layer' = st.layer
    /\ selection' = st.selection
    /\ effects' = st.effects
    /\ call' = c
    /\ error' = err

\* The identity of the next instance constructed.
freshOid(h) == CHOOSE o \in Oid \ DOMAIN h : \A p \in Oid \ DOMAIN h : o <= p

allocate(st, o, sym) ==
    [st EXCEPT !.heap = [x \in (DOMAIN st.heap) \cup {o} |->
                            IF x = o THEN sym ELSE st.heap[x]]]

\* The id a caller gives the k-th instance it constructs: "m1", "m2", ...
idText(k) == <<"m">> \o toString(k)

\* What callers construct symbols from.
InputA ==
    [name |-> <<"A">>, imageSource |-> <<"s", "1">>, latitude |-> 34,
     longitude |-> 0 - 119, isMovable |-> TRUE, failed |-> FALSE]
InputBlankA ==
    [name |-> <<" ", "A", " ">>, imageSource |-> <<"s", "2">>, latitude |-> 0,
     longitude |-> 7, isMovable |-> FALSE, failed |-> FALSE]
InputA2 ==
    [name |-> <<"A", " ", "(", "2", ")">>, imageSource |-> <<"s", "1">>,
     latitude |-> 0 - 5, longitude |-> 10, isMovable |-> TRUE, failed |-> FALSE]
InputA9 ==
    [name |-> <<"A", " ", "(", "9", ")">>, imageSource |-> <<"s", "2">>,
     latitude |-> 12, longitude |-> 0, isMovable |-> FALSE, failed |-> FALSE]
InputFailed ==
    [name |-> <<"A">>, imageSource |-> <<"x">>, latitude |-> 1,
     longitude |-> 2, isMovable |-> TRUE, failed |-> TRUE]

\* A name whose suffix number is 2^53.
InputLarge ==
    [name |-> <<"A", " ", "(">> \o TwoTo53Text \o <<")">>, imageSource |-> <<"s", "1">>,
     latitude |-> 3, longitude |-> 4, isMovable |-> TRUE, failed |-> FALSE]

Inputs == {InputA, InputBlankA, InputA2, InputA9, InputFailed}

\* ------------------------------------------------------------------------
\* Operations
\* ------------------------------------------------------------------------

\* A caller constructs a TacticalSymbol and hands it to addSymbol.  When the
\* resolver's loop does not exit, the call stays inside the subscriber: the
\* symbol has been pushed, and nothing after the loop has run.
AddSymbol(in, cap) ==
    /\ Len(symbols) < cap
    /\ Oid \ DOMAIN heap # {}
    /\ LET o == freshOid(heap)
           sym == TacticalSymbol(Position(in.latitude, in.longitude, 0),
                                 [id |-> idText(o), name |-> in.name,
                                  imageSource |-> in.imageSource,
                                  isMovable |-> in.isMovable],
                                 in.failed)
           given == allocate(Manager, o, sym)
           pushed == [given EXCEPT !.symbols = Append(@, o)]
           loop == uniqueNameLoop(pushed.heap, pushed.symbols, o, trim(in.name), 0)
       IN  /\ Commit(IF loop.hangs THEN pushed ELSE addSymbol(given, o),
                     [NoCall EXCEPT !.op = "addSymbol", !.sym = o,
                                    !.name = in.name, !.scans = loop.scans],
                     IF loop.hangs THEN "hang" ELSE "none")
           /\ UNCHANGED <<storage, saved>>

\* removeSymbol called with an instance, in the collection or not.
RemoveSymbol(o) ==
    /\ Commit(removeSymbol(Manager, o),
              [NoCall EXCEPT !.op = "removeSymbol", !.sym = o,
                             !.present = o \in Range(symbols),
                             !.selected = o \in selection,
                             !.again = (call.op = "removeSymbol" /\ call.sym = o)],
              "none")
    /\ UNCHANGED <<storage, saved>>

\* The array with the element at index i moved to index j.
moveElement(seq, i, j) ==
    LET rest == splice(seq, i)
    IN  SubSeq(rest, 1, j - 1) \o <<seq[i]>> \o SubSeq(rest, j, Len(rest))

\* The observable array is reordered (one symbol moves from index i to index
\* j): the subscriber receives a deleted and an added record for the symbol,
\* both with moved set to the other index.
Reorder(i, j) ==
    /\ i \in DOMAIN symbols
    /\ j \in DOMAIN symbols
    /\ i # j
    /\ Commit(subscriber([Manager EXCEPT !.symbols = moveElement(symbols, i, j)],
                         <<Change("deleted", symbols[i], <<j - 1>>),
                           Change("added", symbols[i], <<i - 1>>)>>),
              [NoCall EXCEPT !.op = "reorder", !.sym = symbols[i]], "none")
    /\ UNCHANGED <<storage, saved>>

\* The user picks a placemark of the layer: its symbol becomes the selection.
Select(o) ==
    /\ o \in Range(layer)
    /\ selection # {o}
    /\ Commit([Manager EXCEPT !.selection = {o}],
              [NoCall EXCEPT !.op = "select", !.sym = o], "none")
    /\ UNCHANGED <<storage, saved>>

FindSymbol(k) ==
    LET r == findSymbol(heap, symbols, idText(k))
    IN  /\ Commit(Manager,
                  [NoCall EXCEPT !.op = "findSymbol", !.id = idText(k), !.ret = r.ret],
                  r.error)
        /\ UNCHANGED <<storage, saved>>

\* The symbols saveSymbols writes: the fields of those not flagged invalid.
KeySet == {Keys[i] : i \in DOMAIN Keys}

validSymbols(h, syms) ==
    LET valid == SelectSeq(syms, LAMBDA o : ~h[o].invalid)
    IN  [i \in DOMAIN valid |-> [k \in KeySet |-> h[valid[i]][k]]]

\* A save that does not test the invalid flag.
saveAllSymbols(h, syms) ==
    toJSON([i \in DOMAIN syms |-> [k \in KeySet |-> h[syms[i]][k]]])

saveSymbols(h, syms) == toJSON(validSymbols(h, syms))

SaveSymbols ==
    /\ storage' = [present |-> TRUE, text |-> saveSymbols(heap, symbols)]
    /\ saved' = [fromSave |-> TRUE, syms |-> [i \in DOMAIN symbols |-> heap[symbols[i]]]]
    /\ Commit(Manager, [NoCall EXCEPT !.op = "saveSymbols"], "none")

\* localStorage.getItem: the text, or null (which JSON.parse reads as the
\* text "null") when the slot is absent.
getItem(slot) == IF slot.present THEN slot.text ELSE NullText

\* A restore that hands Position the longitude first.
restoreOneSwapped(st, item, failed) ==
    LET o == freshOid(st.heap)
        position == Position(item.longitude, item.latitude, 0)
        params == [id |-> item.id, name |-> item.name,
                   imageSource |-> item.source, isMovable |-> item.isMovable]
    IN  addSymbol(allocate(st, o, TacticalSymbol(position, params, failed)), o)

\* One pass of the for loop of restoreSymbols.
restoreOne(st, item, failed) ==
    LET o == freshOid(st.heap)
        position == Position(item.latitude, item.longitude, 0)
        params == [id |-> item.id, name |-> item.name,
                   imageSource |-> item.source, isMovable |-> item.isMovable]
    IN  addSymbol(allocate(st, o, TacticalSymbol(position, params, failed)), o)

\* A restore that gives up at the first record whose construction fails.
RECURSIVE restoreLoopStopping(_, _, _, _)
restoreLoopStopping(st, array, fails, i) ==
    IF i > Len(array) \/ fails[i] THEN st
    ELSE restoreLoopStopping(restoreOne(st, array[i], fails[i]), array, fails, i + 1)

RECURSIVE restoreLoop(_, _, _, _)
restoreLoop(st, array, fails, i) ==
    IF i > Len(array) THEN st
    ELSE restoreLoop(restoreOne(st, array[i], fails[i]), array, fails, i + 1)

\* restoreSymbols: the state it leaves and the exception it raises.
restoreSymbols(st, slot, fails) ==
    LET array == JSONparse(getItem(slot))
    IN  IF array.kind = "SyntaxError" THEN [st |-> st, error |-> "SyntaxError"]
        ELSE IF array.kind = "array" /\ Len(array.items) # 0
        THEN [st |-> restoreLoop(st, array.items, fails, 1), error |-> "none"]
        ELSE [st |-> st, error |-> "none"]

\* fails[i]: whether constructing the symbol of record i fails.
RestoreSymbols(cap) ==
    LET array == JSONparse(getItem(storage))
    IN  /\ Len(symbols) + Len(array.items) <= cap
        /\ \E fails \in [1..Len(array.items) -> BOOLEAN] :
              LET r == restoreSymbols(Manager, storage, fails)
              IN  Commit(r.st,
                         [NoCall EXCEPT !.op = "restoreSymbols", !.before = Len(symbols)],
                         r.error)
        /\ UNCHANGED <<storage, saved>>

\* new SymbolManager(globe, layer) after the page is loaded again: an empty
\* observable array and an empty layer; localStorage is kept.
NewManager ==
    /\ Commit([heap |-> <<>>, symbols |-> <<>>, layer |-> <<>>,
               selection |-> {}, effects |-> <<>>],
              [NoCall EXCEPT !.op = "new"], "none")
    /\ UNCHANGED <<storage, saved>>

\* What other code of the page can leave in the slot: the empty string, an
\* empty array, a truncated text.
ForeignTexts == {<<>>, <<LBracket, RBracket>>, <<LBracket, LBrace>>}

StorageSetItem(text) ==
    /\ storage # [present |-> TRUE, text |-> text]
    /\ storage' = [present |-> TRUE, text |-> text]
    /\ saved' = [fromSave |-> FALSE, syms |-> <<>>]
    /\ UNCHANGED <<heap, symbols, layer, selection>>
    /\ call' = [NoCall EXCEPT !.op = "setItem"]
    /\ effects' = <<>>
    /\ error' = "none"

StorageRemoveItem ==
    /\ storage.present
    /\ storage' = [present |-> FALSE, text |-> <<>>]
    /\ saved' = [fromSave |-> FALSE, syms |-> <<>>]
    /\ UNCHANGED <<heap, symbols, layer, selection>>
    /\ call' = [NoCall EXCEPT !.op = "removeItem"]
    /\ effects' = <<>>
    /\ error' = "none"

\* Other code sharing the markers layer removes a renderable from it.
LayerRemoveRenderable(o) ==
    /\ o \in Range(layer)
    /\ Commit([Manager EXCEPT !.layer = SelectSeq(@, LAMBDA p : p # o)],
              [NoCall EXCEPT !.op = "removeRenderable", !.sym = o], "none")
    /\ UNCHANGED <<storage, saved>>

\* addSymbol with a symbol for which a step of the subscriber raises.
AddSymbolRaising(in, cap, step) ==
    /\ Len(symbols) < cap
    /\ Oid \ DOMAIN heap # {}
    /\ LET o == freshOid(heap)
           sym == TacticalSymbol(Position(in.latitude, in.longitude, 0),
                                 [id |-> idText(o), name |-> in.name,
                                  imageSource |-> in.imageSource,
                                  isMovable |-> in.isMovable],
                                 in.failed)
       IN  /\ Commit(addSymbolRaising(allocate(Manager, o, sym), o, step),
                     [NoCall EXCEPT !.op = "addSymbol", !.sym = o],
                     IF step = "generateUniqueName" THEN "TypeError" ELSE "ArgumentError")
           /\ UNCHANGED <<storage, saved>>

\* removeSymbol of a symbol of the collection when doDeselect raises.
RemoveSymbolRaising(o) ==
    /\ o \in Range(symbols)
    /\ Commit(removeSymbolRaising(Manager, o),
              [NoCall EXCEPT !.op = "removeSymbol", !.sym = o, !.present = TRUE,
                             !.selected = o \in selection],
              "Error")
    /\ UNCHANGED <<storage, saved>>

\* addSymbol called with a symbol that is already in the collection: push
\* does not look for it, and the subscriber handles the added record as for
\* any other symbol.
AddSymbolAgain(o, cap) ==
    /\ Len(symbols) < cap
    /\ o \in Range(symbols)
    /\ Commit(addSymbol(Manager, o),
              [NoCall EXCEPT !.op = "addSymbol", !.sym = o, !.present = TRUE],
              "none")
    /\ UNCHANGED <<storage, saved>>

\* The inputs used where every operation is enabled.
CoreInputs == {InputA, InputBlankA, InputA2, InputFailed}

Next ==
    \/ \E in \in CoreInputs : AddSymbol(in, MaxSymbols)
    \/ \E o \in Oid : RemoveSymbol(o)
    \/ \E i, j \in 1..MaxSymbols : Reorder(i, j)
    \/ \E o \in Oid : Select(o)
    \/ \E k \in 1..MaxSymbols : FindSymbol(k)

Spec == Init /\ [][Next]_vars

\* Symbols are only added and removed, up to MaxNamed of them.
NextNames ==
    \/ \E in \in Inputs : AddSymbol(in, MaxNamed)
    \/ \E o \in Oid : RemoveSymbol(o)

SpecNames == Init /\ [][NextNames]_vars

\* The markers layer is shared with other code.
NextShared ==
    \/ \E in \in CoreInputs : AddSymbol(in, MaxSymbols)
    \/ \E o \in Oid : RemoveSymbol(o)
    \/ \E o \in Oid : Select(o)
    \/ \E o \in Oid : LayerRemoveRenderable(o)

SpecShared == Init /\ [][NextShared]_vars

\* Save and restore across page loads: restoreSymbols is what a page does
\* first with its new manager.
PersistInputs == {InputBlankA, InputFailed}

NextPersist ==
    \/ \E in \in PersistInputs : AddSymbol(in, MaxSymbols)
    \/ \E o \in Range(symbols) : RemoveSymbol(o)
    \/ SaveSymbols
    \/ NewManager
    \/ call.op = "new" /\ RestoreSymbols(MaxSymbols)

SpecPersist == Init /\ [][NextPersist]_vars

\* restoreSymbols on any manager, over a slot that other code of the page has
\* written or removed.
NextForeign ==
    \/ \E in \in PersistInputs : AddSymbol(in, MaxSymbols)
    \/ \E o \in Oid : RemoveSymbol(o)
    \/ \E text \in ForeignTexts : StorageSetItem(text)
    \/ StorageRemoveItem
    \/ RestoreSymbols(MaxSymbols)

SpecForeign == Init /\ [][NextForeign]_vars

\* The collaborators can raise: the symbol's name accessor, the layer's
\* addRenderable, the select controller's doDeselect.
NextRaising ==
    \/ \E in \in CoreInputs : AddSymbol(in, MaxSymbols)
    \/ \E o \in Oid : RemoveSymbol(o)
    \/ \E o \in Oid : Select(o)
    \/ \E in \in CoreInputs, step \in AddSteps : AddSymbolRaising(in, MaxSymbols, step)
    \/ \E o \in Oid : RemoveSymbolRaising(o)

SpecRaising == Init /\ [][NextRaising]_vars

\* Callers may hand addSymbol a symbol a second time.
NextRepeat ==
    \/ \E in \in CoreInputs : AddSymbol(in, MaxSymbols)
    \/ \E o \in Oid : AddSymbolAgain(o, MaxSymbols)
    \/ \E o \in Oid : RemoveSymbol(o)

SpecRepeat == Init /\ [][NextRepeat]_vars

\* Names with large suffix numbers.  A call that does not return keeps the
\* page's only thread: no other operation runs after it.
LargeInputs == {InputA, InputA9, InputLarge}

NextLarge ==
    \/ error # "hang" /\ \E in \in LargeInputs : AddSymbol(in, MaxNamed)
    \/ error # "hang" /\ \E o \in Oid : RemoveSymbol(o)

SpecLarge == Init /\ [][NextLarge]_vars

\* ------------------------------------------------------------------------
\* Properties
\* ------------------------------------------------------------------------
nameOf(i) == heap[symbols[i]].name

SuffixA3 == <<"A", " ", "(", "3", ")">>

\* C1: after every addSymbol (and removeSymbol) no two symbols of the
\* collection carry the same name.
NamesUnique ==
    \A i, j \in DOMAIN symbols : i # j => nameOf(i) # nameOf(j)

\* C1 witness: a third symbol was added and had to be renamed twice.
NamesUniqueWitness ==
    /\ call.op = "addSymbol"
    /\ Len(symbols) >= 3
    /\ heap[call.sym].name = SuffixA3

\* C2 as claimed: the layer holds exactly the placemarks of the symbols of
\* the collection that are not flagged invalid.
LayerMirrorsValidSymbols ==
    Range(layer) = {o \in Range(symbols) : ~heap[o].invalid}

\* C2 as amended: the layer holds exactly the placemarks of the symbols of
\* the collection, those flagged invalid included.
LayerMirrorsSymbols == Range(layer) = Range(symbols)

\* C2 witness: after a removal, a symbol flagged invalid is in the collection
\* and its placemark is in the layer.
LayerMirrorsSymbolsWitness ==
    /\ call.op = "removeSymbol"
    /\ call.present
    /\ \E o \in Range(symbols) : heap[o].invalid /\ o \in Range(layer)

\* C3: a reorder (a deleted and an added record with moved set) changes
\* neither the layer nor any name nor the selection, and notifies no deselect.
ReorderIsTransparent ==
    [][call'.op = "reorder" =>
          /\ layer' = layer
          /\ heap' = heap
          /\ selection' = selection
          /\ effects' = <<>>]_vars

\* C3 witness: a reorder happened while a symbol was selected and one carried
\* a generated suffix.
ReorderIsTransparentWitness ==
    /\ call.op = "reorder"
    /\ selection # {}
    /\ \E i \in DOMAIN symbols : suffixMatch(nameOf(i)) # 0

\* C4: removeSymbol of a symbol that is not in the collection raises nothing
\* and changes neither the collection nor the layer nor the selection.
RemoveAbsentIsNoOp ==
    [][(call'.op = "removeSymbol" /\ call'.sym \notin Range(symbols)) =>
          /\ symbols' = symbols
          /\ layer' = layer
          /\ selection' = selection
          /\ error' = "none"]_vars

\* C4 witness: removeSymbol was called a second time on the instance it had
\* just removed, with other symbols left and one of them selected.
RemoveAbsentIsNoOpWitness ==
    /\ call.op = "removeSymbol"
    /\ call.again
    /\ ~call.present
    /\ symbols # <<>>
    /\ selection # {}

\* The first symbol in collection order with the given id, 0 for none.
firstWithId(id) ==
    LET hits == {i \in DOMAIN symbols : heap[symbols[i]].id = id}
    IN  IF hits = {} THEN 0 ELSE symbols[CHOOSE i \in hits : \A j \in hits : i <= j]

\* C5: findSymbol returns the first symbol with the id, or null, and never
\* raises.
FindSymbolReturnsFirstMatch ==
    call.op = "findSymbol" => (error = "none" /\ call.ret = firstWithId(call.id))

\* C6: the selection never holds a symbol that is not in the collection, and
\* removeSymbol of a symbol of the collection leaves its placemark out of the
\* layer and ends with the deselect notification for it, found or not.
RemoveDeselects ==
    /\ [](selection \subseteq Range(symbols))
    /\ [][(call'.op = "removeSymbol" /\ call'.sym \in Range(symbols)) =>
             /\ call'.sym \notin Range(layer')
             /\ call'.sym \notin selection'
             /\ effects' # <<>>
             /\ effects'[Len(effects')] = [e |-> "doDeselect", sym |-> call'.sym]]_vars

\* C6 witness: a selected symbol was removed whose placemark was not in the
\* layer, so that the deselect notification is the only effect.
RemoveDeselectsWitness ==
    /\ call.op = "removeSymbol"
    /\ call.present
    /\ call.selected
    /\ effects = <<[e |-> "doDeselect", sym |-> call.sym]>>

\* The persisted fields of a symbol.
fieldsOf(sym) ==
    [id |-> sym.id, name |-> sym.name, source |-> sym.source,
     latitude |-> sym.latitude, longitude |-> sym.longitude,
     isMovable |-> sym.isMovable]

\* The persisted fields of the symbols of a sequence that are not flagged
\* invalid, in order.
RECURSIVE fieldsOfValid(_)
fieldsOfValid(syms) ==
    IF syms = <<>> THEN <<>>
    ELSE IF Head(syms).invalid THEN fieldsOfValid(Tail(syms))
    ELSE <<fieldsOf(Head(syms))>> \o fieldsOfValid(Tail(syms))

\* The symbols of the collection, in order.
collection == [i \in DOMAIN symbols |-> heap[symbols[i]]]

\* C7: restoreSymbols on a new manager, over what saveSymbols wrote, raises
\* nothing and yields symbols that carry, in order, the persisted fields of
\* the saved symbols that were not flagged invalid.
RoundTrip ==
    [][(call'.op = "restoreSymbols" /\ symbols = <<>> /\ saved.fromSave) =>
          /\ error' = "none"
          /\ [i \in DOMAIN symbols' |-> fieldsOf(heap'[symbols'[i]])]
                = fieldsOfValid(saved.syms)]_vars

\* C7 witness: a new manager restored a save of a collection that held a
\* symbol flagged invalid and a symbol with a generated suffix.
RoundTripWitness ==
    /\ call.op = "restoreSymbols"
    /\ call.before = 0
    /\ saved.fromSave
    /\ \E i \in DOMAIN saved.syms : saved.syms[i].invalid
    /\ \E i \in DOMAIN symbols : suffixMatch(nameOf(i)) # 0

\* C8: addSymbol and removeSymbol leave the slot alone, and saveSymbols
\* leaves in it the text of exactly the symbols of the collection that are
\* not flagged invalid.
SaveWritesValidSymbols ==
    [][/\ call'.op \in {"addSymbol", "removeSymbol"} => storage' = storage
       /\ call'.op = "saveSymbols" =>
             /\ storage'.present
             /\ JSONparse(storage'.text)
                   = [kind |-> "array", items |-> fieldsOfValid(collection)]]_vars

\* C8 witness: a collection holding a symbol flagged invalid and one that is
\* not was saved.
SaveWritesValidSymbolsWitness ==
    /\ call.op = "saveSymbols"
    /\ \E i \in DOMAIN symbols : heap[symbols[i]].invalid
    /\ \E i \in DOMAIN symbols : ~heap[symbols[i]].invalid

\* The slot is absent, holds the empty string, or holds an empty array.
slotEmpty ==
    \/ ~storage.present
    \/ storage.text = <<>>
    \/ storage.text = <<LBracket, RBracket>>

\* C9: restoreSymbols over an absent or empty slot raises nothing and leaves
\* the collection, the layer and the names as they were.
RestoreOfEmptySlotIsNoOp ==
    [][(call'.op = "restoreSymbols" /\ slotEmpty) =>
          /\ error' = "none"
          /\ symbols' = symbols
          /\ layer' = layer
          /\ heap' = heap]_vars

\* C10: restoreSymbols over a slot whose text cannot be parsed raises nothing
\* and leaves the collection as it was.
RestoreOfCorruptSlotIsNoOp ==
    [][(/\ call'.op = "restoreSymbols"
        /\ storage.present
        /\ storage.text # <<>>
        /\ JSONparse(storage.text).kind = "SyntaxError") =>
          /\ error' = "none"
          /\ symbols' = symbols]_vars


NoPartialApplication ==
    \A o \in Oid :
        /\ ~(o \in Range(symbols) /\ o \notin Range(layer))
        /\ ~(o \notin Range(symbols) /\ o \in Range(layer))

noRepeats(seq) == \A i, j \in DOMAIN seq : i # j => seq[i] # seq[j]

\* C13 as claimed: after any sequence of addSymbol and removeSymbol calls
\* no placemark is in the layer's list more than once.
NoRenderableTwice == noRepeats(layer)

\* C13: while no symbol is in the collection more than once, no placemark is
\* in the layer's list more than once, and a removeSymbol of a symbol that is
\* in the collection once takes at most one item out of the layer.
NoRenderableTwiceUnlessAddedTwice ==
    /\ [](noRepeats(symbols) => noRepeats(layer))
    /\ [][(call'.op = "removeSymbol" /\ noRepeats(symbols)) =>
             Len(layer') >= Len(layer) - 1]_vars

\* C13 witness: a symbol has been removed from a collection of two distinct
\* symbols, and one placemark has left the layer.
NoRenderableTwiceWitness ==
    /\ call.op = "removeSymbol"
    /\ call.present
    /\ Cardinality({i \in DOMAIN effects : effects[i].e = "splice"}) = 1
    /\ Len(symbols) = 1
    /\ Len(layer) = 1

\* The k-th name of the progression N, "N (2)", "N (3)", ...
numbered(N, k) ==
    IF k = 1 THEN N ELSE N \o <<" ", "(">> \o toString(k) \o <<")">>

\* C14: when the symbols of the collection are named N, "N (2)", ...,
\* "N (n)" in order (N without suffix) and a symbol named N is added, it
\* is appended under the name "N (n+1)"; from the empty collection k adds of
\* N therefore give N, "N (2)", ..., "N (k)".
SuffixProgression ==
    [][(/\ call'.op = "addSymbol"
        /\ suffixMatch(trim(call'.name)) = 0
        /\ \A i \in DOMAIN symbols : nameOf(i) = numbered(trim(call'.name), i))
       => /\ error' = "none"
          /\ symbols' = Append(symbols, call'.sym)
          /\ heap'[call'.sym].name = numbered(trim(call'.name), Len(symbols) + 1)]_vars

\* C14 witness: three symbols named "A" were added to the empty collection.
SuffixProgressionWitness ==
    /\ call.op = "addSymbol"
    /\ call.name = <<"A">>
    /\ Len(symbols) = 3
    /\ \A i \in DOMAIN symbols : nameOf(i) = numbered(<<"A">>, i)

\* The name with its suffix "(n)" replaced by "(n+1)".
incremented(name) ==
    LET at == suffixMatch(name)
    IN  SubSeq(name, 1, at - 1) \o <<"(">>
            \o successorText(stripZeros(SubSeq(name, at + 1, Len(name) - 1))) \o <<")">>

\* C15 as claimed: when the name a symbol comes with ends in "(n)" and is the
\* name of a symbol of the collection, and the name with "(n+1)" in place of
\* "(n)" is nobody's, the symbol is added under that name.
IncrementsSuffix ==
    [][(/\ call'.op = "addSymbol"
        /\ suffixMatch(trim(call'.name)) # 0
        /\ \E i \in DOMAIN symbols : nameOf(i) = trim(call'.name)
        /\ \A i \in DOMAIN symbols : nameOf(i) # incremented(trim(call'.name)))
       => /\ error' = "none"
          /\ heap'[call'.sym].name = incremented(trim(call'.name))]_vars

\* C17 as claimed: every run of the resolver ends, after at most one scan
\* more than there are other symbols in the collection.
ResolverTerminates ==
    call.op = "addSymbol" => (error # "hang" /\ call.scans <= Len(symbols))

\* C16: in every state between two operations each symbol of the collection
\* has had its added record processed: its name is resolved (trimmed and
\* nobody else's) and its placemark is in the layer.
AddReflectedBeforeNextOperation ==
    \A i \in DOMAIN symbols :
        /\ symbols[i] \in Range(layer)
        /\ nameOf(i) = trim(nameOf(i))
        /\ \A j \in DOMAIN symbols : j # i => nameOf(j) # nameOf(i)

\* C16 witness: addSymbol has returned for a symbol that had to be renamed,
\* and the last thing the call did was to put its placemark into the layer.
AddReflectedWitness ==
    /\ call.op = "addSymbol"
    /\ error = "none"
    /\ heap[call.sym].name # call.name
    /\ effects # <<>>
    /\ effects[Len(effects)] = [e |-> "addRenderable", sym |-> call.sym]
    /\ layer[Len(layer)] = call.sym

\* C18: a symbol that comes with a name whose trimmed form no other symbol
\* carries is added under exactly the trimmed name, and in the state every
\* call leaves the resolver, run again for any symbol of the collection,
\* returns the name the symbol has.
ResolverExcludesSelf ==
    [][call'.op = "addSymbol" =>
          /\ (\A i \in DOMAIN symbols : nameOf(i) # trim(call'.name))
                => heap'[call'.sym].name = trim(call'.name)
          /\ \A i \in DOMAIN symbols' :
                generateUniqueName(heap', symbols', symbols'[i]) = heap'[symbols'[i]].name]_vars

\* C18 witness: a symbol that came as " A " is in the collection as "A",
\* next to another symbol with a different name.
ResolverExcludesSelfWitness ==
    /\ call.op = "addSymbol"
    /\ call.name = <<" ", "A", " ">>
    /\ heap[call.sym].name = <<"A">>
    /\ Len(symbols) >= 2

\* The layer's list without the placemark of symbol o.
layerWithout(lyr, o) == SelectSeq(lyr, LAMBDA p : p # o)

\* C19: addSymbol and removeSymbol leave every symbol of the collection
\* other than the one they are called with under its name, and leave the
\* other symbols' placemarks in the layer, in the order they had.
OthersUntouched ==
    [][call'.op \in {"addSymbol", "removeSymbol"} =>
          /\ \A o \in Range(symbols) \ {call'.sym} :
                /\ o \in Range(symbols')
                /\ heap'[o].name = heap[o].name
                /\ o \in Range(layer') <=> o \in Range(layer)
          /\ layerWithout(layer', call'.sym) = layerWithout(layer, call'.sym)]_vars

\* C19 witness: the first of three symbols named "A" was removed; the two
\* that remain kept their names and their places.
OthersUntouchedWitness ==
    /\ call.op = "removeSymbol"
    /\ call.present
    /\ Len(symbols) = 2
    /\ nameOf(1) = <<"A", " ", "(", "2", ")">>
    /\ nameOf(2) = SuffixA3
    /\ layer = symbols

\* C20: a symbol that comes with a name N without suffix that another symbol
\* carries is added as "N (m)" for the least m >= 2 for which "N (m)" is no
\* other symbol's name: numbers that removals have freed are used again.
FirstFreeSuffix ==
    [][(/\ call'.op = "addSymbol"
        /\ suffixMatch(trim(call'.name)) = 0
        /\ \E i \in DOMAIN symbols : nameOf(i) = trim(call'.name))
       => \E m \in 2..(Len(symbols) + 1) :
             /\ heap'[call'.sym].name = numbered(trim(call'.name), m)
             /\ \A i \in DOMAIN symbols : nameOf(i) # numbered(trim(call'.name), m)
             /\ \A k \in 2..(m - 1) :
                   \E i \in DOMAIN symbols : nameOf(i) = numbered(trim(call'.name), k)]_vars

\* C20 witness: with "A" and "A (3)" in the collection a symbol named "A"
\* was added and became "A (2)".
FirstFreeSuffixWitness ==
    /\ call.op = "addSymbol"
    /\ call.name = <<"A">>
    /\ Len(symbols) = 3
    /\ nameOf(1) = <<"A">>
    /\ nameOf(2) = SuffixA3
    /\ nameOf(3) = <<"A", " ", "(", "2", ")">>

=============================================================================
